---------------------------- MODULE Spec2Model ----------------------------
(***************************************************************************)
(* ISSTracker: the request staggerer (request_stagger.py), the position    *)
(* fetcher (iss_fetcher.py) and the asynchronous fetch coordinator of the  *)
(* application (main.py), as state machines.                               *)
(*                                                                         *)
(* Times of the staggerer are in tenths of a second (0.5 s = 5).           *)
(***************************************************************************)
EXTENDS Integers, Sequences, FiniteSets, Bags, TLC

(***************************************************************************)
(* Bounds of the model.                                                    *)
(***************************************************************************)
NCallers == 2       \* threads calling into the staggerer registry
MaxCalls == 4       \* calls started by concurrent callers
MaxSeqCalls == 6    \* calls started by the single caller of SpecSeq
MaxSeqWaits == 1    \* of which calls of wait_for_api
MaxObjs == 2        \* RequestStaggerer objects ever constructed
Epoch == 1000       \* the clock's value at start (time.time() is far from 0)

(***************************************************************************)
(* Program constants.                                                      *)
(***************************************************************************)
RateWindow == 600   \* "if time_window < 60", in tenths of a second
RateBuffer == 1     \* "+ 0.1  # Small buffer"
MaxBackoff == 16    \* "max 16x"

Min(a, b) == IF a < b THEN a ELSE b
Max(a, b) == IF a > b THEN a ELSE b

NoObj == 0
NoThread == 0

ApiNames == {"iss_api", "geo_api"}

\* the keyword arguments register_api passes to RequestStaggerer(**kwargs)
Config(d, m, b, j) ==
    [fixed_delay |-> d, max_requests_per_minute |-> m,
     enable_exponential_backoff |-> b, enable_jitter |-> j]
Configs ==
    {Config(5, 2, TRUE, FALSE), Config(5, 1, TRUE, TRUE), Config(5, 1, FALSE, FALSE)}

\* elapsed time seen by a clock read at the start of a call, and by a read or
\* a wake-up inside a call
Gaps == {3, 600}
Lags == {0, 1}
\* random.uniform(-0.2, 0.2), in tenths
JitterTenths == {-2, 0, 2}

VARIABLES
    \* request_stagger.py
    objs,        \* the RequestStaggerer objects constructed so far
    staggerers,  \* MultiAPIStaggerer.staggerers: name -> object (NoObj: absent)
    global_lock, \* MultiAPIStaggerer.global_lock
    now,         \* the latest value time.time() has returned
    callers,     \* the calling threads
    budget,      \* calls that may still be started
    waits,       \* calls of wait_for_api that may still be started
    obj_budget,  \* RequestStaggerer objects that may still be constructed
    issued,      \* history: every timestamp appended to request_times
    streak,      \* history: per object, record_failure calls completed since
                 \* the last completed record_success
    raised       \* history: the last exception a caller got, per caller

VARIABLES
    \* iss_fetcher.py, the fetcher on its own
    fetcher,     \* a call of get_iss_position: its position and what it has seen
    requests,    \* history: the endpoints requested, in order
    \* main.py
    auto_update_enabled,
    auto_update_job,      \* the id root.after returned last (NoJob: None)
    timers,               \* the armed root.after jobs for update_location
    jobs_created,         \* root.after jobs created so far
    is_fetching,
    update_queue,
    cached_location,
    last_geo_update_time,
    last_position,
    iss_trail_coords,
    log_file,             \* the file iss_tracking_log.json
    fetches,              \* the live threads running _fetch_data_async
    spawned,              \* threads update_location has started so far
    fetch_budget,         \* threads update_location may still start
    savers,               \* the live threads running save_thread
    applied               \* history: the log entries of the samples applied

stagger_vars ==
    <<objs, staggerers, global_lock, now, callers, budget, waits, obj_budget, issued, streak, raised>>

fetcher_vars == <<fetcher, requests>>

app_vars ==
    <<auto_update_enabled, auto_update_job, timers, jobs_created, is_fetching,
      update_queue, cached_location, last_geo_update_time, last_position,
      iss_trail_coords, log_file, fetches, spawned, fetch_budget, savers, applied>>

stagger_rest ==
    <<objs, staggerers, global_lock, callers, budget, waits, obj_budget, issued, streak, raised>>

\* what no action of the staggerer changes
others == <<fetcher_vars, app_vars>>

vars == <<stagger_vars, fetcher_vars, app_vars>>

CallerIds == 1..NCallers
ObjIds == 1..MaxObjs

(***************************************************************************)
(* RequestStaggerer.__init__                                               *)
(***************************************************************************)
RequestStaggerer(cfg) ==
    [fixed_delay |-> cfg.fixed_delay,
     max_requests_per_minute |-> cfg.max_requests_per_minute,
     enable_exponential_backoff |-> cfg.enable_exponential_backoff,
     enable_jitter |-> cfg.enable_jitter,
     last_request_time |-> 0,
     request_times |-> << >>,
     lock |-> NoThread,
     consecutive_failures |-> 0,
     backoff_multiplier |-> 1]

\* a calling thread: its position, the object it is inside (self), its locals,
\* and (history) the multiplier its delay was computed from and whether the
\* rate limit made it sleep
IdleCaller ==
    [pc |-> "idle", self |-> NoObj, tmp |-> 0, wake |-> 0, mult |-> 0, limited |-> FALSE]

\* deque(maxlen=n).append(x)
deque_append(q, x, maxlen) ==
    IF Len(q) < maxlen THEN Append(q, x)
    ELSE IF maxlen = 0 THEN << >>
    ELSE Append(Tail(q), x)

\* required_delay = self.fixed_delay * self.backoff_multiplier
required_delay_nomult(o) == o.fixed_delay
required_delay(o) == o.fixed_delay * o.backoff_multiplier

\* sleep_time = required_delay - time_since_last
sleep_time(req, time_since_last) == req - time_since_last

\* jitter = random.uniform(-0.2, 0.2) * required_delay
jitter(req, j) == (j * req) \div 10

\* wait_time = 60 - time_window + 0.1
rate_wait_time_nobuffer(time_window) == RateWindow - time_window - RateBuffer
rate_wait_time(time_window) == RateWindow - time_window + RateBuffer

\* min(2 ** self.consecutive_failures, 16)
next_backoff_uncapped(cf) == 2 ^ cf
next_backoff(cf) == Min(2 ^ cf, MaxBackoff)

Set(c, rec) == callers' = [callers EXCEPT ![c] = rec]
SetObj(o, rec) == objs' = [objs EXCEPT ![o] = rec]

(***************************************************************************)
(* MultiAPIStaggerer.register_api                                          *)
(***************************************************************************)
\* a variant that keeps the Staggerer of a name already registered: setdefault
register_api_keeps(c, name, cfg) ==
    /\ callers[c].pc = "idle"
    /\ budget > 0
    /\ global_lock = NoThread
    /\ obj_budget > 0
    /\ obj_budget' = obj_budget - 1
    /\ objs' = Append(objs, RequestStaggerer(cfg))
    /\ staggerers' = IF staggerers[name] = NoObj
                     THEN [staggerers EXCEPT ![name] = Len(objs) + 1]
                     ELSE staggerers
    /\ streak' = Append(streak, 0)
    /\ budget' = budget - 1
    /\ UNCHANGED <<others, global_lock, now, callers, waits, issued, raised>>

register_api(c, name, cfg) ==
    /\ callers[c].pc = "idle"
    /\ budget > 0
    /\ global_lock = NoThread
    /\ obj_budget > 0
    /\ obj_budget' = obj_budget - 1
    /\ objs' = Append(objs, RequestStaggerer(cfg))
    /\ staggerers' = [staggerers EXCEPT ![name] = Len(objs) + 1]
    /\ streak' = Append(streak, 0)
    /\ budget' = budget - 1
    /\ UNCHANGED <<others, global_lock, now, callers, waits, issued, raised>>

(***************************************************************************)
(* MultiAPIStaggerer.wait_for_api: the lookup, then wait_if_needed         *)
(***************************************************************************)
\* a variant that registers a default Staggerer for an unknown name
wait_for_api_creates(c, name) ==
    /\ callers[c].pc = "idle"
    /\ budget > 0
    /\ waits > 0
    /\ budget' = budget - 1
    /\ waits' = waits - 1
    /\ raised' = [raised EXCEPT ![c] = "none"]
    /\ IF staggerers[name] = NoObj
       THEN /\ obj_budget > 0
            /\ obj_budget' = obj_budget - 1
            /\ objs' = Append(objs, RequestStaggerer(Config(5, 1, FALSE, FALSE)))
            /\ staggerers' = [staggerers EXCEPT ![name] = Len(objs) + 1]
            /\ streak' = Append(streak, 0)
            /\ Set(c, [IdleCaller EXCEPT !.pc = "w_lock", !.self = Len(objs) + 1])
       ELSE /\ Set(c, [IdleCaller EXCEPT !.pc = "w_lock", !.self = staggerers[name]])
            /\ UNCHANGED <<objs, staggerers, streak, obj_budget>>
    /\ UNCHANGED <<others, global_lock, now, issued>>

wait_for_api(c, name) ==
    /\ callers[c].pc = "idle"
    /\ budget > 0
    /\ waits > 0
    /\ budget' = budget - 1
    /\ waits' = waits - 1
    /\ IF staggerers[name] = NoObj
       THEN /\ raised' = [raised EXCEPT ![c] = "ValueError"]
            /\ UNCHANGED callers
       ELSE /\ raised' = [raised EXCEPT ![c] = "none"]
            /\ Set(c, [IdleCaller EXCEPT !.pc = "w_lock", !.self = staggerers[name]])
    /\ UNCHANGED <<others, objs, staggerers, global_lock, now, obj_budget, issued, streak>>

\* a variant with one lock for all endpoints: with self.global_lock
wait_lock_global(c) ==
    LET o == callers[c].self IN
    /\ callers[c].pc = "w_lock"
    /\ \A h \in DOMAIN callers :
          callers[h].pc \notin {"w_delay", "w_sleep1", "w_rate", "w_sleep2", "w_update"}
    /\ SetObj(o, [objs[o] EXCEPT !.lock = c])
    /\ Set(c, [callers[c] EXCEPT !.pc = "w_delay"])
    /\ UNCHANGED <<others, staggerers, global_lock, now, budget, waits, obj_budget, issued, streak, raised>>

\* with self.lock:
wait_lock(c) ==
    LET o == callers[c].self IN
    /\ callers[c].pc = "w_lock"
    /\ objs[o].lock = NoThread
    /\ SetObj(o, [objs[o] EXCEPT !.lock = c])
    /\ Set(c, [callers[c] EXCEPT !.pc = "w_delay"])
    /\ UNCHANGED <<others, staggerers, global_lock, now, budget, waits, obj_budget, issued, streak, raised>>

\* 1. Fixed delay constraint
wait_fixed_delay(c, gap, j) ==
    LET o == callers[c].self
        current_time == now + gap
        time_since_last == current_time - objs[o].last_request_time
        base == required_delay(objs[o])
        req == IF objs[o].enable_jitter THEN base + jitter(base, j) ELSE base
    IN
    /\ callers[c].pc = "w_delay"
    /\ objs[o].enable_jitter \/ j = 0
    /\ now' = current_time
    /\ IF time_since_last < req
       THEN Set(c, [callers[c] EXCEPT !.pc = "w_sleep1",
                                      !.mult = objs[o].backoff_multiplier,
                                      !.wake = current_time + sleep_time(req, time_since_last)])
       ELSE Set(c, [callers[c] EXCEPT !.pc = "w_rate",
                                      !.mult = objs[o].backoff_multiplier])
    /\ UNCHANGED <<others, objs, staggerers, global_lock, budget, waits, obj_budget, issued, streak, raised>>

\* time.sleep returns no earlier than asked
sleep_returns(c, lag) ==
    /\ callers[c].pc \in {"w_sleep1", "w_sleep2"}
    /\ now' = Max(now, callers[c].wake) + lag
    /\ Set(c, [callers[c] EXCEPT
                 !.pc = IF callers[c].pc = "w_sleep1" THEN "w_rate" ELSE "w_update",
                 !.wake = 0])
    /\ UNCHANGED <<others, objs, staggerers, global_lock, budget, waits, obj_budget, issued, streak, raised>>

\* 2. Rate limiting constraint
_enforce_rate_limit(c, lag) ==
    LET o == callers[c].self IN
    /\ callers[c].pc = "w_rate"
    /\ IF Len(objs[o].request_times) < objs[o].max_requests_per_minute
       THEN /\ lag = 0
            /\ Set(c, [callers[c] EXCEPT !.pc = "w_update"])
            /\ UNCHANGED now
       ELSE LET current_time == now + lag
                oldest_request == objs[o].request_times[1]
                time_window == current_time - oldest_request
            IN
            /\ now' = current_time
            /\ IF time_window < RateWindow
               THEN Set(c, [callers[c] EXCEPT !.pc = "w_sleep2", !.limited = TRUE,
                              !.wake = current_time + rate_wait_time(time_window)])
               ELSE Set(c, [callers[c] EXCEPT !.pc = "w_update"])
    /\ UNCHANGED <<others, objs, staggerers, global_lock, budget, waits, obj_budget, issued, streak, raised>>

\* Update timing, and the end of "with self.lock"
wait_update_timing(c, lag) ==
    LET o == callers[c].self
        t == now + lag
    IN
    /\ callers[c].pc = "w_update"
    /\ now' = t
    /\ SetObj(o, [objs[o] EXCEPT
                    !.last_request_time = t,
                    !.request_times = deque_append(@, t, objs[o].max_requests_per_minute),
                    !.lock = NoThread])
    /\ issued' = Append(issued, [obj |-> o, t |-> t, mult |-> callers[c].mult,
                                 limited |-> callers[c].limited])
    /\ Set(c, IdleCaller)
    /\ UNCHANGED <<others, staggerers, global_lock, budget, waits, obj_budget, streak, raised>>

(***************************************************************************)
(* MultiAPIStaggerer.record_result, RequestStaggerer.record_success and    *)
(* record_failure (neither takes self.lock)                                *)
(***************************************************************************)
\* a variant that looks the name up without the membership test: KeyError
record_result_unchecked(c, name, success) ==
    /\ callers[c].pc = "idle"
    /\ budget > 0
    /\ budget' = budget - 1
    /\ IF staggerers[name] = NoObj
       THEN /\ raised' = [raised EXCEPT ![c] = "KeyError"]
            /\ UNCHANGED callers
       ELSE /\ raised' = [raised EXCEPT ![c] = "none"]
            /\ Set(c, [IdleCaller EXCEPT !.pc = IF success THEN "rs_enabled" ELSE "rf_enabled",
                                         !.self = staggerers[name]])
    /\ UNCHANGED <<others, objs, staggerers, global_lock, now, waits, obj_budget, issued, streak>>

record_result(c, name, success) ==
    /\ callers[c].pc = "idle"
    /\ budget > 0
    /\ budget' = budget - 1
    /\ raised' = [raised EXCEPT ![c] = "none"]
    /\ IF staggerers[name] = NoObj
       THEN UNCHANGED callers
       ELSE Set(c, [IdleCaller EXCEPT !.pc = IF success THEN "rs_enabled" ELSE "rf_enabled",
                                      !.self = staggerers[name]])
    /\ UNCHANGED <<others, objs, staggerers, global_lock, now, waits, obj_budget, issued, streak>>

\* if self.enable_exponential_backoff: self.consecutive_failures = 0
record_success_failures(c) ==
    LET o == callers[c].self IN
    /\ callers[c].pc = "rs_enabled"
    /\ IF objs[o].enable_exponential_backoff
       THEN /\ SetObj(o, [objs[o] EXCEPT !.consecutive_failures = 0])
            /\ Set(c, [callers[c] EXCEPT !.pc = "rs_multiplier"])
            /\ UNCHANGED streak
       ELSE /\ Set(c, IdleCaller)
            /\ streak' = [streak EXCEPT ![o] = 0]
            /\ UNCHANGED objs
    /\ UNCHANGED <<others, staggerers, global_lock, now, budget, waits, obj_budget, issued, raised>>

\* self.backoff_multiplier = 1.0
record_success_multiplier(c) ==
    LET o == callers[c].self IN
    /\ callers[c].pc = "rs_multiplier"
    /\ SetObj(o, [objs[o] EXCEPT !.backoff_multiplier = 1])
    /\ Set(c, IdleCaller)
    /\ streak' = [streak EXCEPT ![o] = 0]
    /\ UNCHANGED <<others, staggerers, global_lock, now, budget, waits, obj_budget, issued, raised>>

\* if self.enable_exponential_backoff: (load of) self.consecutive_failures
record_failure_load(c) ==
    LET o == callers[c].self IN
    /\ callers[c].pc = "rf_enabled"
    /\ IF objs[o].enable_exponential_backoff
       THEN /\ Set(c, [callers[c] EXCEPT !.pc = "rf_store",
                                         !.tmp = objs[o].consecutive_failures])
            /\ UNCHANGED streak
       ELSE /\ Set(c, IdleCaller)
            /\ streak' = [streak EXCEPT ![o] = @ + 1]
    /\ UNCHANGED <<others, objs, staggerers, global_lock, now, budget, waits, obj_budget, issued, raised>>

\* self.consecutive_failures += 1 (the store)
record_failure_store(c) ==
    LET o == callers[c].self IN
    /\ callers[c].pc = "rf_store"
    /\ SetObj(o, [objs[o] EXCEPT !.consecutive_failures = callers[c].tmp + 1])
    /\ Set(c, [callers[c] EXCEPT !.pc = "rf_min", !.tmp = 0])
    /\ UNCHANGED <<others, staggerers, global_lock, now, budget, waits, obj_budget, issued, streak, raised>>

\* min(2 ** self.consecutive_failures, 16)
record_failure_min(c) ==
    LET o == callers[c].self IN
    /\ callers[c].pc = "rf_min"
    /\ Set(c, [callers[c] EXCEPT !.pc = "rf_multiplier",
                                 !.tmp = next_backoff(objs[o].consecutive_failures)])
    /\ UNCHANGED <<others, objs, staggerers, global_lock, now, budget, waits, obj_budget, issued, streak, raised>>

\* self.backoff_multiplier = ... (the store)
record_failure_multiplier(c) ==
    LET o == callers[c].self IN
    /\ callers[c].pc = "rf_multiplier"
    /\ SetObj(o, [objs[o] EXCEPT !.backoff_multiplier = callers[c].tmp])
    /\ Set(c, IdleCaller)
    /\ streak' = [streak EXCEPT ![o] = @ + 1]
    /\ UNCHANGED <<others, staggerers, global_lock, now, budget, waits, obj_budget, issued, raised>>

(***************************************************************************)
(* iss_fetcher.py: the providers' responses and what the fetcher makes of  *)
(* them.  The ISS is where its orbit puts it at the provider's timestamp.  *)
(* response.json() on a body that is not JSON raises                       *)
(* requests.exceptions.JSONDecodeError, a RequestException (requests 2.27  *)
(* and later).                                                             *)
(***************************************************************************)
Timestamps == {1, 2}

Orbit(t) ==
    IF t = 1 THEN [latitude |-> 0, longitude |-> 171]
    ELSE [latitude |-> 0, longitude |-> -171]

FailureKinds == {"timeout", "non2xx", "malformed", "missing_field"}

\* what http://api.open-notify.org/iss-now.json may answer
PrimaryResponses ==
    [kind : FailureKinds \cup {"not_success"}, timestamp : {0}]
        \cup [kind : {"ok"}, timestamp : Timestamps]

\* what https://api.wheretheiss.at/v1/satellites/25544 may answer
SecondaryResponses ==
    [kind : FailureKinds, timestamp : {0}] \cup [kind : {"ok"}, timestamp : Timestamps]

NoData == [kind |-> "none"]
Raised == [kind |-> "raise"]

Sample(t, alt, vel) ==
    [kind |-> "data",
     latitude |-> Orbit(t).latitude,
     longitude |-> Orbit(t).longitude,
     altitude |-> alt,
     velocity |-> vel,
     timestamp |-> t,
     location |-> ""]

\* failures that raise requests.RequestException
IsRequestException(kind) == kind \in {"timeout", "non2xx", "malformed"}

\* _get_iss_position_backup: the sample, None, or an exception that is not a
\* RequestException (KeyError on a missing field)
_get_iss_position_backup(resp) ==
    IF resp.kind = "ok" THEN Sample(resp.timestamp, 420, 27580)
    ELSE IF IsRequestException(resp.kind) THEN NoData
    ELSE Raised

\* the try block of get_iss_position: "backup" stands for the except clause
\* being entered
primary_outcome(resp) ==
    IF resp.kind = "ok" THEN Sample(resp.timestamp, 408, 27600)
    ELSE IF resp.kind = "not_success" THEN NoData
    ELSE IF IsRequestException(resp.kind) THEN [kind |-> "backup"]
    ELSE Raised

\* get_iss_position
get_iss_position(primary, secondary) ==
    IF primary_outcome(primary).kind = "backup"
    THEN _get_iss_position_backup(secondary)
    ELSE primary_outcome(primary)

(***************************************************************************)
(* The fetcher on its own: one caller, calls one after another.            *)
(***************************************************************************)
MaxFetcherCalls == 2

FetcherInit ==
    /\ fetcher = [pc |-> "idle", primary |-> "none", result |-> NoData]
    /\ requests = << >>

\* session.get(self.iss_api_url, timeout=5) and the rest of the try block
fetcher_primary(resp) ==
    /\ fetcher.pc = "idle"
    /\ Len(requests) < 2 * MaxFetcherCalls
    /\ requests' = Append(requests, "primary")
    /\ fetcher' = [pc |-> IF primary_outcome(resp).kind = "backup" THEN "backup"
                          ELSE "returned",
                   primary |-> resp.kind,
                   result |-> IF primary_outcome(resp).kind = "backup" THEN NoData
                              ELSE primary_outcome(resp)]
    /\ UNCHANGED <<stagger_vars, app_vars>>

\* return self._get_iss_position_backup()
fetcher_backup(resp) ==
    /\ fetcher.pc = "backup"
    /\ requests' = Append(requests, "secondary")
    /\ fetcher' = [fetcher EXCEPT !.pc = "returned",
                                  !.result = _get_iss_position_backup(resp)]
    /\ UNCHANGED <<stagger_vars, app_vars>>

\* the caller has the result and may call again
fetcher_again ==
    /\ fetcher.pc = "returned"
    /\ fetcher' = [pc |-> "idle", primary |-> "none", result |-> NoData]
    /\ UNCHANGED <<requests, stagger_vars, app_vars>>

(***************************************************************************)
(* iss_fetcher.py: get_location_details                                    *)
(***************************************************************************)
\* what https://nominatim.openstreetmap.org/reverse may answer: no answer,
\* status 400 or a body holding 'error', another bad status, a body that is
\* not JSON, JSON that is not an object, or an address
GeoResponses ==
    [kind : {"timeout", "http400", "non2xx", "malformed", "not_object"},
     city : {FALSE}, country : {FALSE}]
        \cup [kind : {"json"}, city : BOOLEAN, country : BOOLEAN]

\* the answers the application's cycles are run against
AppPrimaryResponses ==
    {r \in PrimaryResponses :
        \/ r.kind \in {"timeout", "missing_field", "not_success"}
        \/ r.kind = "ok" /\ r.timestamp = 1}
AppSecondaryResponses ==
    {r \in SecondaryResponses :
        \/ r.kind \in {"timeout", "missing_field"}
        \/ r.kind = "ok" /\ r.timestamp = 2}
AppGeoResponses ==
    {r \in GeoResponses :
        \/ r.kind \in {"timeout", "not_object"}
        \/ r.kind = "json" /\ r.city /\ r.country}

\* fewer of them, where tracking is switched on and off as well
TrackPrimaryResponses == {r \in AppPrimaryResponses : r.kind \in {"ok", "timeout"}}
TrackSecondaryResponses == {r \in AppSecondaryResponses : r.kind = "missing_field"}
TrackGeoResponses == {r \in AppGeoResponses : r.kind = "json"}
TrackGaps == {0}

get_location_details(resp) ==
    IF resp.kind = "http400" THEN "Over Ocean"
    ELSE IF resp.kind \in {"timeout", "non2xx", "malformed"} THEN "N/A"
    ELSE IF resp.kind = "not_object" THEN "raise"
    ELSE IF resp.city /\ resp.country THEN "Paris, France"
    ELSE IF resp.country THEN "France"
    ELSE "Over Ocean"

(***************************************************************************)
(* main.py: SpaceTrackerApp2025                                            *)
(***************************************************************************)
MaxFetch == 3           \* threads update_location starts, the first included
MaxCycleFetch == 2      \* the same, for manual cycles against every answer
MaxLogFetch == 2        \* the same, where the save threads run too
MaxCacheFetch == 2      \* the same, for cycles while the clock advances
Horizon == 151          \* how far the clock of the application gets past Epoch

geo_interval == 150     \* self.geo_interval = 15, in tenths of a second
canvas_width == 760
canvas_height == 380
max_trail_points == 1200

NoJob == 0
AppGaps == {0, 150}     \* elapsed time seen by the clock read of a cycle
CacheGaps == {0, 150, 151}  \* the same, to either side of geo_interval

\* first is no field of the program: it tells the thread that __init__ starts,
\* the earliest one of the session, from the later ones where delivery order
\* is followed (SpecOrder), and is FALSE everywhere else
NewFetch(is_manual) ==
    [pc |-> "check", is_manual |-> is_manual, data |-> NoData, current_time |-> 0,
     pushed |-> 0, first |-> FALSE]

NewSaver(entry) == [pc |-> "load", data_entry |-> entry, logs |-> << >>]

AppInit(nfetch, mark) ==
    /\ auto_update_enabled = FALSE
    /\ auto_update_job = NoJob
    /\ timers = {}
    /\ jobs_created = 0
    /\ is_fetching = FALSE
    /\ update_queue = << >>
    /\ cached_location = "Tracking"
    /\ last_geo_update_time = 0
    /\ last_position = NoData
    /\ iss_trail_coords = << >>
    /\ log_file = [state |-> "absent", logs |-> << >>]
    \* __init__: update_location(is_manual=True)
    /\ fetches = SetToBag({[NewFetch(TRUE) EXCEPT !.first = mark]})
    /\ spawned = 1
    /\ fetch_budget = nfetch - 1
    /\ savers = EmptyBag
    /\ applied = << >>

\* the threads are told apart by their state only: a bag of thread states
Put(bag, rec) == bag (+) SetToBag({rec})
Drop(bag, rec) == bag (-) SetToBag({rec})
SetFetch(t, rec) == fetches' = Put(Drop(fetches, t), rec)
SetSaver(s, rec) == savers' = Put(Drop(savers, s), rec)

\* threading.Thread(target=self._fetch_data_async, args=(is_manual,)).start()
start_fetch_thread(is_manual) ==
    /\ fetch_budget > 0
    /\ fetch_budget' = fetch_budget - 1
    /\ spawned' = spawned + 1
    /\ fetches' = Put(fetches, NewFetch(is_manual))

\* ---- the consumer: handlers that run on the Tk main loop ----

\* MANUAL UPDATE: update_location(is_manual=True)
manual_update ==
    /\ start_fetch_thread(TRUE)
    /\ UNCHANGED <<auto_update_enabled, auto_update_job, timers, jobs_created,
                   is_fetching, update_queue, cached_location, last_geo_update_time,
                   last_position, iss_trail_coords, log_file, savers, applied>>
    /\ UNCHANGED <<stagger_vars, fetcher_vars>>

_toggle_tracking ==
    /\ auto_update_enabled' = ~auto_update_enabled
    /\ IF ~auto_update_enabled
       THEN /\ start_fetch_thread(FALSE)
            /\ UNCHANGED <<auto_update_job, timers>>
       ELSE /\ IF auto_update_job # NoJob
               THEN /\ timers' = timers \ {auto_update_job}
                    /\ auto_update_job' = NoJob
               ELSE UNCHANGED <<auto_update_job, timers>>
            /\ UNCHANGED <<fetches, spawned, fetch_budget>>
    /\ UNCHANGED <<jobs_created, is_fetching, update_queue, cached_location,
                   last_geo_update_time, last_position, iss_trail_coords, log_file,
                   savers, applied>>
    /\ UNCHANGED <<stagger_vars, fetcher_vars>>

\* the job of root.after(self.update_interval, ...): update_location(is_manual=False)
timer_fires(job) ==
    /\ job \in timers
    /\ timers' = timers \ {job}
    /\ IF auto_update_enabled
       THEN start_fetch_thread(FALSE)
       ELSE UNCHANGED <<fetches, spawned, fetch_budget>>
    /\ UNCHANGED <<auto_update_enabled, auto_update_job, jobs_created, is_fetching,
                   update_queue, cached_location, last_geo_update_time, last_position,
                   iss_trail_coords, log_file, savers, applied>>
    /\ UNCHANGED <<stagger_vars, fetcher_vars>>

\* great-circle distance in km between two positions of the orbit: the
\* haversine formula with R = 6371 gives 2001 km for 18 degrees of longitude
\* on the equator (171 and -171)
haversine_km(p, q) ==
    IF p.latitude = q.latitude /\ p.longitude = q.longitude THEN 0 ELSE 2001

\* the latitudes at which a = sin(dlat/2)**2 + cos(lat1)*cos(lat2)*sin(dlon/2)**2
\* of two antipodal points comes out as 1.0000000000000002 in IEEE doubles,
\* among whole degrees from -52 to 52 and every whole longitude
AboveOneLatitudes == {-12, -8, 8, 12}

\* math.sqrt(1 - a) raises ValueError (math domain error)
haversine_raises(p, q) ==
    /\ q.latitude = 0 - p.latitude
    /\ q.longitude - p.longitude \in {-180, 180}
    /\ p.latitude \in AboveOneLatitudes

\* the distance is computed first, inside the try block; except Exception:
\* return 27600.0
_calculate_real_velocity(last, new_data) ==
    IF last = NoData THEN 27600
    ELSE IF haversine_raises(last, new_data) THEN 27600
    ELSE LET time_diff == new_data.timestamp - last.timestamp IN
         IF time_diff <= 0 THEN last.velocity
         ELSE (haversine_km(last, new_data) * 3600) \div time_diff

\* x = (lon + 180) * (self.canvas_width / 360); y = (90 - lat) * (self.canvas_height / 180)
canvas_point(lat, lon) ==
    <<((lon + 180) * canvas_width) \div 360, ((90 - lat) * canvas_height) \div 180>>

\* a variant that evicts the point before the new one: pop(-2)
append_trail_pop_newest(trail, pt) ==
    IF Len(trail) + 1 > max_trail_points
    THEN Append(SubSeq(trail, 1, Len(trail) - 1), pt)
    ELSE Append(trail, pt)

\* self.iss_trail_coords.append((x, y)), pop(0) past max_trail_points
append_trail(trail, pt) ==
    IF Len(trail) + 1 > max_trail_points THEN Tail(Append(trail, pt))
    ELSE Append(trail, pt)

\* if abs(x2 - x1) > self.canvas_width / 2
segment_split_inclusive(x1, x2) ==
    2 * (IF x2 >= x1 THEN x2 - x1 ELSE x1 - x2) >= canvas_width
segment_split(x1, x2) ==
    2 * (IF x2 >= x1 THEN x2 - x1 ELSE x1 - x2) > canvas_width

\* for i in range(1, len(self.iss_trail_coords)): the segments closed so far,
\* current_segment, and the index i of the point to come (from 1, as in TLA+);
\* the segments hold the indices of their points
RECURSIVE segment_walk(_, _, _, _)
segment_walk(trail, segs, current_segment, i) ==
    IF i > Len(trail) THEN Append(segs, current_segment)
    ELSE IF segment_split(trail[i - 1][1], trail[i][1])
    THEN segment_walk(trail, Append(segs, current_segment), <<i>>, i + 1)
    ELSE segment_walk(trail, segs, Append(current_segment, i), i + 1)

\* if len(self.iss_trail_coords) > 1: current_segment = [self.iss_trail_coords[0]]
trail_segments(trail) ==
    IF Len(trail) > 1 THEN segment_walk(trail, << >>, <<1>>, 2) ELSE << >>

\* a variant that draws the segments of a single point as well
trail_lines_all(trail) ==
    SelectSeq(trail_segments(trail), LAMBDA seg : Len(seg) > 0)

\* if len(current_segment) > 1: self.canvas.create_line(current_segment, ...):
\* the lines tagged "trail" on the canvas
trail_lines(trail) ==
    SelectSeq(trail_segments(trail), LAMBDA seg : Len(seg) > 1)

\* log_data = data.copy(); log_data.pop('timestamp_obj', None)
log_data(data) ==
    [latitude |-> data.latitude, longitude |-> data.longitude,
     altitude |-> data.altitude, velocity |-> data.velocity,
     timestamp_str |-> data.timestamp, location |-> data.location]

\* the state the consumer owns, as _process_queue threads it through a drain
ConsumerState ==
    [last_position |-> last_position, iss_trail_coords |-> iss_trail_coords,
     savers |-> savers, applied |-> applied, auto_update_job |-> auto_update_job,
     timers |-> timers, jobs_created |-> jobs_created]

_update_ui_with_data(st, data) ==
    LET velocity_kms == _calculate_real_velocity(st.last_position, data)
        shown == [data EXCEPT !.velocity = velocity_kms]
    IN [st EXCEPT
          !.iss_trail_coords = append_trail(@, canvas_point(data.latitude, data.longitude)),
          !.savers = Put(@, NewSaver(log_data(shown))),
          !.applied = Append(@, log_data(shown)),
          !.last_position = shown]

\* a variant that applies a sample only while tracking is on
process_message_tracking(st, msg) ==
    IF msg.type = "data" /\ auto_update_enabled THEN _update_ui_with_data(st, msg.data)
    ELSE IF msg.type = "schedule" /\ auto_update_enabled
    THEN [st EXCEPT !.jobs_created = @ + 1,
                    !.auto_update_job = st.jobs_created + 1,
                    !.timers = @ \cup {st.jobs_created + 1}]
    ELSE st

\* a variant that blanks the last sample on an error
process_message_blanks(st, msg) ==
    IF msg.type = "data" THEN _update_ui_with_data(st, msg.data)
    ELSE IF msg.type = "error" THEN [st EXCEPT !.last_position = NoData]
    ELSE IF msg.type = "schedule" /\ auto_update_enabled
    THEN [st EXCEPT !.jobs_created = @ + 1,
                    !.auto_update_job = st.jobs_created + 1,
                    !.timers = @ \cup {st.jobs_created + 1}]
    ELSE st

\* one message of the queue
process_message(st, msg) ==
    IF msg.type = "data" THEN _update_ui_with_data(st, msg.data)
    ELSE IF msg.type = "schedule" /\ auto_update_enabled
    THEN [st EXCEPT !.jobs_created = @ + 1,
                    !.auto_update_job = st.jobs_created + 1,
                    !.timers = @ \cup {st.jobs_created + 1}]
    ELSE st

RECURSIVE drain(_, _)
drain(st, q) == IF q = << >> THEN st ELSE drain(process_message(st, Head(q)), Tail(q))

\* _process_queue: every message until queue.Empty
_process_queue ==
    /\ update_queue # << >>
    /\ LET st == drain(ConsumerState, update_queue) IN
       /\ last_position' = st.last_position
       /\ iss_trail_coords' = st.iss_trail_coords
       /\ savers' = st.savers
       /\ applied' = st.applied
       /\ auto_update_job' = st.auto_update_job
       /\ timers' = st.timers
       /\ jobs_created' = st.jobs_created
    /\ update_queue' = << >>
    /\ UNCHANGED <<auto_update_enabled, is_fetching, cached_location,
                   last_geo_update_time, log_file, fetches, spawned, fetch_budget>>
    /\ UNCHANGED <<stagger_vars, fetcher_vars>>

\* ---- the background: a thread running _fetch_data_async ----

\* what a fetch thread neither reads nor writes
fetch_frame == <<auto_update_job, timers, jobs_created, last_position,
                 iss_trail_coords, log_file, spawned, fetch_budget, savers, applied>>

\* a variant with the test inside the try block, so that the return runs
\* the finally clause
fetch_check_in_try(t) ==
    /\ t.pc = "check"
    /\ SetFetch(t, [t EXCEPT !.pc = IF is_fetching THEN "finally" ELSE "set_flag"])
    /\ UNCHANGED <<auto_update_enabled, is_fetching, update_queue, cached_location,
                   last_geo_update_time, now>>
    /\ UNCHANGED <<fetch_frame, stagger_rest, fetcher_vars>>

\* if self.is_fetching: return
fetch_check(t) ==
    /\ t.pc = "check"
    /\ IF is_fetching
       THEN fetches' = Drop(fetches, t)
       ELSE SetFetch(t, [t EXCEPT !.pc = "set_flag"])
    /\ UNCHANGED <<auto_update_enabled, is_fetching, update_queue, cached_location,
                   last_geo_update_time, now>>
    /\ UNCHANGED <<fetch_frame, stagger_rest, fetcher_vars>>

\* self.is_fetching = True
fetch_set_flag(t) ==
    /\ t.pc = "set_flag"
    /\ is_fetching' = TRUE
    /\ SetFetch(t, [t EXCEPT !.pc = "position"])
    /\ UNCHANGED <<auto_update_enabled, update_queue, cached_location,
                   last_geo_update_time, now>>
    /\ UNCHANGED <<fetch_frame, stagger_rest, fetcher_vars>>

\* if is_manual or (current_time - self.last_geo_update_time > self.geo_interval)
geo_due_unforced(is_manual, current_time, last) ==
    current_time - last > geo_interval
geo_due_inclusive(is_manual, current_time, last) ==
    is_manual \/ current_time - last >= geo_interval
geo_due(is_manual, current_time, last) ==
    is_manual \/ current_time - last > geo_interval

\* data = self.data_fetcher.get_iss_position(); if data: current_time =
\* time.time() and the test whether a geo lookup is due
fetch_position(t, primary, secondary, gap) ==
    LET data == get_iss_position(primary, secondary)
        current_time == now + gap
    IN
    /\ t.pc = "position"
    /\ IF data.kind = "data"
       THEN /\ current_time <= Epoch + Horizon
            /\ now' = current_time
            /\ SetFetch(t, [t EXCEPT
                              !.data = data,
                              !.current_time = current_time,
                              !.pc = IF geo_due(t.is_manual, current_time,
                                                last_geo_update_time)
                                     THEN "geo" ELSE "attach"])
       ELSE /\ gap = 0
            /\ UNCHANGED now
            /\ SetFetch(t, [t EXCEPT
                              !.pc = IF data.kind = "none" THEN "finally" ELSE "except"])
    /\ UNCHANGED <<auto_update_enabled, is_fetching, update_queue, cached_location,
                   last_geo_update_time>>
    /\ UNCHANGED <<fetch_frame, stagger_rest, fetcher_vars>>

\* new_location = self.data_fetcher.get_location_details(...);
\* self.cached_location = new_location; an exception ends in "Geo lookup skipped"
fetch_geo(t, resp) ==
    LET new_location == get_location_details(resp) IN
    /\ t.pc = "geo"
    /\ IF new_location = "raise"
       THEN /\ SetFetch(t, [t EXCEPT !.pc = "attach", !.current_time = 0])
            /\ UNCHANGED cached_location
       ELSE /\ SetFetch(t, [t EXCEPT !.pc = "store_time"])
            /\ cached_location' = new_location
    /\ UNCHANGED <<auto_update_enabled, is_fetching, update_queue,
                   last_geo_update_time, now>>
    /\ UNCHANGED <<fetch_frame, stagger_rest, fetcher_vars>>

\* self.last_geo_update_time = current_time
fetch_store_time(t) ==
    /\ t.pc = "store_time"
    /\ last_geo_update_time' = t.current_time
    /\ SetFetch(t, [t EXCEPT !.pc = "attach", !.current_time = 0])
    /\ UNCHANGED <<auto_update_enabled, is_fetching, update_queue, cached_location, now>>
    /\ UNCHANGED <<fetch_frame, stagger_rest, fetcher_vars>>

\* data['location'] = self.cached_location
fetch_attach(t) ==
    /\ t.pc = "attach"
    /\ SetFetch(t, [t EXCEPT !.pc = "put", !.data.location = cached_location,
                                      !.current_time = 0])
    /\ UNCHANGED <<auto_update_enabled, is_fetching, update_queue, cached_location,
                   last_geo_update_time, now>>
    /\ UNCHANGED <<fetch_frame, stagger_rest, fetcher_vars>>

\* a variant that applies the sample in the background thread as well
fetch_put_data_applies(t) ==
    /\ t.pc = "put"
    /\ update_queue' = Append(update_queue, [type |-> "data", data |-> t.data, first |-> t.first])
    /\ last_position' = t.data
    /\ SetFetch(t, [t EXCEPT !.pc = "finally", !.data = NoData,
                                      !.pushed = @ + 1])
    /\ UNCHANGED <<auto_update_enabled, is_fetching, cached_location,
                   last_geo_update_time, now>>
    /\ UNCHANGED <<auto_update_job, timers, jobs_created, iss_trail_coords, log_file,
                   spawned, fetch_budget, savers, applied>>
    /\ UNCHANGED <<stagger_rest, fetcher_vars>>

\* self.update_queue.put(('data', data))
fetch_put_data(t) ==
    /\ t.pc = "put"
    /\ update_queue' = Append(update_queue, [type |-> "data", data |-> t.data, first |-> t.first])
    /\ SetFetch(t, [t EXCEPT !.pc = "finally", !.data = NoData,
                                      !.pushed = @ + 1])
    /\ UNCHANGED <<auto_update_enabled, is_fetching, cached_location,
                   last_geo_update_time, now>>
    /\ UNCHANGED <<fetch_frame, stagger_rest, fetcher_vars>>

\* a variant where the except clause ends the thread's work on the flag: the
\* finally clause is passed over
fetch_except_returns(t) ==
    /\ t.pc = "except"
    /\ update_queue' = Append(update_queue, [type |-> "error", data |-> NoData, first |-> FALSE])
    /\ SetFetch(t, [t EXCEPT !.pc = "schedule", !.pushed = @ + 1])
    /\ UNCHANGED <<auto_update_enabled, is_fetching, cached_location,
                   last_geo_update_time, now>>
    /\ UNCHANGED <<fetch_frame, stagger_rest, fetcher_vars>>

\* except Exception as e: self.update_queue.put(('error', str(e)))
fetch_except(t) ==
    /\ t.pc = "except"
    /\ update_queue' = Append(update_queue, [type |-> "error", data |-> NoData, first |-> FALSE])
    /\ SetFetch(t, [t EXCEPT !.pc = "finally", !.pushed = @ + 1])
    /\ UNCHANGED <<auto_update_enabled, is_fetching, cached_location,
                   last_geo_update_time, now>>
    /\ UNCHANGED <<fetch_frame, stagger_rest, fetcher_vars>>

\* finally: self.is_fetching = False
fetch_finally(t) ==
    /\ t.pc = "finally"
    /\ is_fetching' = FALSE
    /\ SetFetch(t, [t EXCEPT !.pc = "schedule"])
    /\ UNCHANGED <<auto_update_enabled, update_queue, cached_location,
                   last_geo_update_time, now>>
    /\ UNCHANGED <<fetch_frame, stagger_rest, fetcher_vars>>

\* a variant where the thread arms the timer of the next cycle itself
fetch_schedule_arms(t) ==
    /\ t.pc = "schedule"
    /\ IF ~t.is_manual /\ auto_update_enabled
       THEN /\ jobs_created' = jobs_created + 1
            /\ auto_update_job' = jobs_created + 1
            /\ timers' = timers \cup {jobs_created + 1}
       ELSE UNCHANGED <<jobs_created, auto_update_job, timers>>
    /\ fetches' = Drop(fetches, t)
    /\ UNCHANGED <<auto_update_enabled, is_fetching, update_queue, cached_location,
                   last_geo_update_time, now>>
    /\ UNCHANGED <<last_position, iss_trail_coords, log_file, spawned, fetch_budget,
                   savers, applied>>
    /\ UNCHANGED <<stagger_rest, fetcher_vars>>

\* if not is_manual and self.auto_update_enabled:
\* self.update_queue.put(('schedule', None)); the thread ends
fetch_schedule(t) ==
    /\ t.pc = "schedule"
    /\ IF ~t.is_manual /\ auto_update_enabled
       THEN update_queue' = Append(update_queue, [type |-> "schedule", data |-> NoData, first |-> FALSE])
       ELSE UNCHANGED update_queue
    /\ fetches' = Drop(fetches, t)
    /\ UNCHANGED <<auto_update_enabled, is_fetching, cached_location,
                   last_geo_update_time, now>>
    /\ UNCHANGED <<fetch_frame, stagger_rest, fetcher_vars>>

\* ---- the background: a thread running save_thread of _save_log ----

\* _load_log: no file, or content that json.load rejects, is an empty log
_load_log(file) == IF file.state = "json" THEN file.logs ELSE << >>

save_frame == <<auto_update_enabled, auto_update_job, timers, jobs_created,
                is_fetching, update_queue, cached_location, last_geo_update_time,
                last_position, iss_trail_coords, fetches, spawned, fetch_budget, applied>>

\* logs = self._load_log(); logs.append(data_entry)
save_load(s) ==
    /\ s.pc = "load"
    /\ SetSaver(s, [s EXCEPT !.pc = "open",
                             !.logs = Append(_load_log(log_file), s.data_entry)])
    /\ UNCHANGED <<log_file, save_frame, stagger_vars, fetcher_vars>>

\* open(self.log_file, 'w', encoding='utf-8') empties the file
save_open(s) ==
    /\ s.pc = "open"
    /\ log_file' = [state |-> "empty", logs |-> << >>]
    /\ SetSaver(s, [s EXCEPT !.pc = "dump"])
    /\ UNCHANGED <<save_frame, stagger_vars, fetcher_vars>>

\* json.dump(logs, f, indent=4, ensure_ascii=False), the file is closed and
\* the thread ends
save_dump(s) ==
    /\ s.pc = "dump"
    /\ log_file' = [state |-> "json", logs |-> s.logs]
    /\ savers' = Drop(savers, s)
    /\ UNCHANGED <<save_frame, stagger_vars, fetcher_vars>>

(***************************************************************************)
(* The staggerer with concurrent callers, and with a single caller.        *)
(***************************************************************************)
StaggerInit(n, calls, nwaits, nobjs, nfetch, mark) ==
    /\ objs = << >>
    /\ staggerers = [a \in ApiNames |-> NoObj]
    /\ global_lock = NoThread
    /\ now = Epoch
    /\ callers = [c \in 1..n |-> IdleCaller]
    /\ budget = calls
    /\ waits = nwaits
    /\ obj_budget = nobjs
    /\ issued = << >>
    /\ streak = << >>
    /\ raised = [c \in 1..n |-> "none"]
    /\ FetcherInit
    /\ AppInit(nfetch, mark)

StaggerNext ==
    \E c \in DOMAIN callers :
        \/ \E name \in ApiNames, cfg \in Configs : register_api(c, name, cfg)
        \/ \E name \in ApiNames : wait_for_api(c, name)
        \/ wait_lock(c)
        \/ \E gap \in Gaps, j \in JitterTenths : wait_fixed_delay(c, gap, j)
        \/ \E lag \in Lags : sleep_returns(c, lag)
        \/ \E lag \in Lags : _enforce_rate_limit(c, lag)
        \/ \E lag \in Lags : wait_update_timing(c, lag)
        \/ \E name \in ApiNames, success \in BOOLEAN : record_result(c, name, success)
        \/ record_success_failures(c)
        \/ record_success_multiplier(c)
        \/ record_failure_load(c)
        \/ record_failure_store(c)
        \/ record_failure_min(c)
        \/ record_failure_multiplier(c)

SpecStagger == StaggerInit(NCallers, MaxCalls, MaxCalls, MaxObjs, 1, FALSE) /\ [][StaggerNext]_vars
SpecSeq == StaggerInit(1, MaxSeqCalls, MaxSeqWaits, MaxObjs, 1, FALSE) /\ [][StaggerNext]_vars

\* The registry with a third object, so that a name is registered again
\* while the other name keeps its Staggerer.
MaxRegCalls == 4    \* calls started by the callers of SpecRegistry
MaxRegWaits == 1    \* of which calls of wait_for_api
MaxRegObjs == 3     \* RequestStaggerer objects constructed in SpecRegistry

SpecRegistry ==
    StaggerInit(NCallers, MaxRegCalls, MaxRegWaits, MaxRegObjs, 1, FALSE)
        /\ [][StaggerNext]_vars

(***************************************************************************)
(* The fetcher on its own.                                                 *)
(***************************************************************************)
FetcherNext ==
    \/ \E resp \in PrimaryResponses : fetcher_primary(resp)
    \/ \E resp \in SecondaryResponses : fetcher_backup(resp)
    \/ fetcher_again

SpecFetcher == StaggerInit(0, 0, 0, 0, 1, FALSE) /\ [][FetcherNext]_vars

(***************************************************************************)
(* The application: the consumer's handlers and the background threads.    *)
(***************************************************************************)
ConsumerNext ==
    \/ manual_update
    \/ _toggle_tracking
    \/ \E job \in timers : timer_fires(job)
    \/ _process_queue

\* the steps of the fetch threads, against the given answers of the position
\* providers and of the geocoder and the given clock gaps
FetchNext(P, S, G, gaps) ==
    \E t \in BagToSet(fetches) :
        \/ fetch_check(t)
        \/ fetch_set_flag(t)
        \/ \E primary \in P, secondary \in S, gap \in gaps :
               fetch_position(t, primary, secondary, gap)
        \/ \E resp \in G : fetch_geo(t, resp)
        \/ fetch_store_time(t)
        \/ fetch_attach(t)
        \/ fetch_put_data(t)
        \/ fetch_except(t)
        \/ fetch_finally(t)
        \/ fetch_schedule(t)

SaveNext ==
    \E s \in BagToSet(savers) :
        \/ save_load(s)
        \/ save_open(s)
        \/ save_dump(s)

\* The whole application but for the steps of the save threads, which touch
\* nothing but the log file: every handler of the consumer, and cycles that
\* get a position from the primary provider or an exception from the secondary.
TrackFetch ==
    FetchNext(TrackPrimaryResponses, TrackSecondaryResponses, TrackGeoResponses,
              TrackGaps)

Next ==
    \/ ConsumerNext
    \/ TrackFetch

Spec == StaggerInit(0, 0, 0, 0, MaxFetch, FALSE) /\ [][Next]_vars

\* Manual and periodic cycles while the clock advances between them; the
\* periodic ones are those that switching tracking on starts.
CacheFetch ==
    FetchNext(TrackPrimaryResponses, TrackSecondaryResponses, TrackGeoResponses,
              CacheGaps)

CacheNext ==
    \/ manual_update
    \/ _toggle_tracking
    \/ _process_queue
    \/ CacheFetch

SpecCache == StaggerInit(0, 0, 0, 0, MaxCacheFetch, FALSE) /\ [][CacheNext]_vars

\* the same cycles, the thread of __init__ marked
SpecOrder == StaggerInit(0, 0, 0, 0, MaxCacheFetch, TRUE) /\ [][CacheNext]_vars

\* The same where the threads keep running, every request returning within its
\* timeout, and the main loop keeps calling _process_queue
\* (self.root.after(100, self._process_queue)).
FairCache == SpecCache /\ WF_vars(CacheFetch) /\ WF_vars(_process_queue)

\* Manually triggered cycles against every kind of answer.
CycleFetch ==
    FetchNext(AppPrimaryResponses, AppSecondaryResponses, AppGeoResponses, AppGaps)

CycleNext ==
    \/ manual_update
    \/ _process_queue
    \/ CycleFetch

SpecCycle == StaggerInit(0, 0, 0, 0, MaxCycleFetch, FALSE) /\ [][CycleNext]_vars

\* The same where the threads keep running: every request returns within its
\* timeout (5, 10 and 8 seconds), and nothing else in _fetch_data_async waits.
FairCycle == SpecCycle /\ WF_vars(CycleFetch)

\* The same, with the save threads.
LogNext ==
    \/ manual_update
    \/ _process_queue
    \/ CycleFetch
    \/ SaveNext

SpecLog == StaggerInit(0, 0, 0, 0, MaxLogFetch, FALSE) /\ [][LogNext]_vars

(***************************************************************************)
(* The consumer on its own, against whatever samples the threads put.      *)
(***************************************************************************)
MaxSamples == 3     \* samples put on the queue

\* positions a provider may answer with: a point, another and its antipode
Positions ==
    {[latitude |-> 0, longitude |-> 171], [latitude |-> -12, longitude |-> -171],
     [latitude |-> 12, longitude |-> 9]}

\* the samples either provider can supply, a location attached
ProviderSamples ==
    {[get_iss_position(p, s) EXCEPT !.location = "Paris, France",
                                    !.latitude = pos.latitude,
                                    !.longitude = pos.longitude] :
        p \in {r \in PrimaryResponses : r.kind \in {"ok", "timeout"}},
        s \in {r \in SecondaryResponses : r.kind = "ok"},
        pos \in Positions}

\* self.update_queue.put(('data', data)), of whichever thread
sample_arrives(data) ==
    /\ Len(applied) + Len(update_queue) < MaxSamples
    /\ update_queue' = Append(update_queue, [type |-> "data", data |-> data, first |-> FALSE])
    /\ UNCHANGED <<auto_update_enabled, auto_update_job, timers, jobs_created,
                   is_fetching, cached_location, last_geo_update_time, last_position,
                   iss_trail_coords, log_file, fetches, spawned, fetch_budget,
                   savers, applied>>
    /\ UNCHANGED <<stagger_vars, fetcher_vars>>

ApplyNext ==
    \/ \E data \in ProviderSamples : sample_arrives(data)
    \/ _process_queue

SpecApply == StaggerInit(0, 0, 0, 0, 1, FALSE) /\ [][ApplyNext]_vars

(***************************************************************************)
(* The trail on its own: positions shown one after another, and CLEAR.     *)
(***************************************************************************)
MaxTrailLen == 5    \* points of the trail where any longitude may follow any

\* what neither _update_canvas_position nor _clear_trail changes
trail_frame ==
    <<auto_update_enabled, auto_update_job, timers, jobs_created, is_fetching,
      update_queue, cached_location, last_geo_update_time, last_position,
      log_file, fetches, spawned, fetch_budget, savers, applied>>

\* _update_canvas_position(lat, lon): the point is appended; the lines are
\* redrawn from the trail (trail_lines)
_update_canvas_position(lat, lon) ==
    /\ iss_trail_coords' = append_trail(iss_trail_coords, canvas_point(lat, lon))
    /\ UNCHANGED <<trail_frame, stagger_vars, fetcher_vars>>

\* a variant that forgets the last sample as well
_clear_trail_forgets ==
    /\ iss_trail_coords' = << >>
    /\ last_position' = NoData
    /\ UNCHANGED <<auto_update_enabled, auto_update_job, timers, jobs_created,
                   is_fetching, update_queue, cached_location, last_geo_update_time,
                   log_file, fetches, spawned, fetch_budget, savers, applied>>
    /\ UNCHANGED <<stagger_vars, fetcher_vars>>

\* self.iss_trail_coords = []; self.canvas.delete("trail")
_clear_trail ==
    /\ iss_trail_coords' = << >>
    /\ UNCHANGED <<trail_frame, stagger_vars, fetcher_vars>>

\* longitudes whose x is 0, 19, 380, 399 and 741
TrailLons == {-180, -171, 0, 9, 171}

TrailNext ==
    \/ \E lon \in TrailLons :
           /\ Len(iss_trail_coords) < MaxTrailLen
           /\ _update_canvas_position(0, lon)
    \/ _clear_trail

SpecTrail == StaggerInit(0, 0, 0, 0, 1, FALSE) /\ [][TrailNext]_vars

\* The trail along the ground track: from one sample to the next the ISS is
\* 9 degrees further east, from 180 W on; x goes by 19 and wraps at the
\* antimeridian. The trail fills up to max_trail_points and beyond.
OrbitStep == 9
OrbitLons == {OrbitStep * k - 180 : k \in 0..(360 \div OrbitStep - 1)}

follows(trail, lon) ==
    IF trail = << >> THEN lon = -180
    ELSE canvas_point(0, lon)[1] =
            (trail[Len(trail)][1] + canvas_point(0, OrbitStep - 180)[1]) % canvas_width

OrbitNext ==
    \/ \E lon \in OrbitLons :
           /\ follows(iss_trail_coords, lon)
           /\ _update_canvas_position(0, lon)
    \/ _clear_trail

SpecOrbit == StaggerInit(0, 0, 0, 0, 1, FALSE) /\ [][OrbitNext]_vars

(***************************************************************************)
(* CLEAR pressed while cycles run and messages wait.                       *)
(***************************************************************************)
MaxClearFetch == 2      \* threads update_location starts, the first included

ClearNext ==
    \/ manual_update
    \/ _toggle_tracking
    \/ _process_queue
    \/ _clear_trail
    \/ TrackFetch

SpecClear == StaggerInit(0, 0, 0, 0, MaxClearFetch, FALSE) /\ [][ClearNext]_vars

(***************************************************************************)
(* Claims about the application (main.py) and the fetcher (iss_fetcher.py) *)
(***************************************************************************)
\* a thread that has set is_fetching and has not yet cleared it: it is in the
\* try block of _fetch_data_async
InFlight(t) == t.pc \in {"position", "geo", "store_time", "attach", "put", "except",
                         "finally"}

NumInFlight ==
    BagCardinality([t \in {x \in BagToSet(fetches) : InFlight(x)} |-> fetches[t]])

\* C1: single-flight. In every reachable state at most one execution of
\* _fetch_data_async is past the is_fetching check and performing the fetch.
C1_SingleFlight == NumInFlight <= 1

\* C2: every fetch cycle that entered Fetching has pushed exactly one result
\* message ('data' or 'error') onto the queue when it is back at Idle, that
\* is once it has cleared is_fetching.
C2_OneResultPerCycle ==
    \A t \in BagToSet(fetches) : t.pc = "schedule" => t.pushed = 1

\* C3: a reverse-geocode attempt that fails, get_location_details returning
\* the "N/A" sentinel, leaves the cached location as it was.
C3_FailedGeocodeKeepsCache ==
    [][\A t \in BagToSet(fetches) : \A resp \in AppGeoResponses :
           (get_location_details(resp) = "N/A" /\ fetch_geo(t, resp))
               => UNCHANGED <<cached_location, last_geo_update_time>>]_vars

\* C4: whenever the primary position request has failed in one of the listed
\* ways (timeout, non-2xx, malformed body, missing required field), the call
\* of get_iss_position has asked the secondary endpoint before it returns.
C4_FallbackOnAnyFailure ==
    (fetcher.pc = "returned" /\ fetcher.primary \in FailureKinds)
        => (requests # << >> /\ requests[Len(requests)] = "secondary")

\* C5, as stated: no step of the background fetch execution modifies the
\* trail, the location cache, its timestamp or the last accepted sample.
C5_ConsumerOnly ==
    [][TrackFetch => UNCHANGED <<iss_trail_coords, cached_location,
                                 last_geo_update_time, last_position>>]_vars

\* C5, amended: the trail and the last accepted sample are written only by
\* the consumer, and the location cache and its timestamp are written only
\* by the background fetch execution.
C5_Ownership ==
    [][/\ TrackFetch => UNCHANGED <<iss_trail_coords, last_position>>
       /\ ConsumerNext => UNCHANGED <<cached_location, last_geo_update_time>>]_vars

\* a fetch thread has filled the cache, and the consumer has accepted a
\* sample and drawn it on the trail
C5_Witness ==
    /\ cached_location = "Paris, France"
    /\ last_geo_update_time >= Epoch
    /\ last_position # NoData
    /\ iss_trail_coords # << >>

\* a wait_for_api on the endpoint has completed: its Staggerer has recorded a
\* request time
Gated(name) ==
    /\ staggerers[name] # NoObj
    /\ \E i \in DOMAIN issued : issued[i].obj = staggerers[name]

\* the steps in which a fetch thread sends the position request, and the
\* reverse-geocode request
PositionRequest ==
    \E t \in BagToSet(fetches) :
        \E primary \in TrackPrimaryResponses, secondary \in TrackSecondaryResponses,
           gap \in TrackGaps : fetch_position(t, primary, secondary, gap)

GeoRequest ==
    \E t \in BagToSet(fetches) : \E resp \in TrackGeoResponses : fetch_geo(t, resp)

\* C11: no position request is sent in a cycle unless the wait on the position
\* endpoint's Staggerer has completed, and no reverse-geocode request unless
\* the wait on the geocode endpoint's Staggerer has.
C11_RequestsGated ==
    [][/\ PositionRequest => Gated("iss_api")
       /\ GeoRequest => Gated("geo_api")]_vars

\* the step is the clock read and the cache test of the periodic thread t, which
\* has got a position
PeriodicDecision(t) ==
    /\ ~t.is_manual
    /\ \E primary \in TrackPrimaryResponses, secondary \in TrackSecondaryResponses,
          gap \in CacheGaps :
           /\ get_iss_position(primary, secondary).kind = "data"
           /\ fetch_position(t, primary, secondary, gap)

\* the step has brought a thread to pc
Entered(pc) ==
    \E r \in BagToSet(fetches') :
        /\ r.pc = pc
        /\ CopiesIn(r, fetches') > CopiesIn(r, fetches)

\* C12, as stated: a periodic cycle sends the reverse-geocode request when the
\* cache timestamp is geo_interval or more behind its clock read, exactly
\* geo_interval included, and sends none when it is less.
C12_CacheInterval ==
    [][\A t \in BagToSet(fetches) :
           PeriodicDecision(t) =>
               (Entered("geo") <=> now' - last_geo_update_time >= geo_interval)]_vars

\* C12, amended: the request is sent when the cache timestamp is more than
\* geo_interval behind; at geo_interval or less, exactly geo_interval
\* included, none is sent and the cached string is attached as it is.
C12_CacheIntervalStrict ==
    [][/\ \A t \in BagToSet(fetches) :
            PeriodicDecision(t) =>
                /\ Entered("geo") <=> now' - last_geo_update_time > geo_interval
                /\ Entered("attach") <=> now' - last_geo_update_time <= geo_interval
       /\ \A t \in BagToSet(fetches) :
            fetch_attach(t) =>
                \E r \in BagToSet(fetches') :
                    /\ r.pc = "put"
                    /\ r.data.location = cached_location
                    /\ CopiesIn(r, fetches') > CopiesIn(r, fetches)]_vars

\* a periodic cycle has read the clock exactly geo_interval after the cache
\* was filled and goes on without a request
C12_Witness ==
    \E t \in BagToSet(fetches) :
        /\ ~t.is_manual
        /\ t.pc = "attach"
        /\ last_geo_update_time >= Epoch
        /\ t.current_time = last_geo_update_time + geo_interval

\* the step is the clock read and the cache test of the manual thread t, which
\* has got a position
ManualDecision(t) ==
    /\ t.is_manual
    /\ \E primary \in TrackPrimaryResponses, secondary \in TrackSecondaryResponses,
          gap \in CacheGaps :
           /\ get_iss_position(primary, secondary).kind = "data"
           /\ fetch_position(t, primary, secondary, gap)

\* C13: a manually triggered cycle that got a position always sends the
\* reverse-geocode request, whatever the age of the cache; a periodic cycle
\* sends none while the cache is no older than geo_interval.
C13_ManualForces ==
    [][\A t \in BagToSet(fetches) :
           /\ ManualDecision(t) => Entered("geo")
           /\ (PeriodicDecision(t) /\ now' - last_geo_update_time <= geo_interval)
                  => ~Entered("geo")]_vars

\* a manual cycle is at the request although the cache was filled less than
\* geo_interval before its clock read
C13_Witness ==
    \E t \in BagToSet(fetches) :
        /\ t.is_manual
        /\ t.pc = "geo"
        /\ last_geo_update_time >= Epoch
        /\ t.current_time < last_geo_update_time + geo_interval

\* a thread that has got a position and has not yet put it on the queue
HoldsSample(t) == t.pc \in {"geo", "store_time", "attach", "put"}

\* the samples obtained so far: applied, on the queue, or held by a thread
Obtained ==
    Len(applied)
    + Cardinality({i \in DOMAIN update_queue : update_queue[i].type = "data"})
    + BagCardinality([t \in {x \in BagToSet(fetches) : HoldsSample(x)} |-> fetches[t]])

\* C14: when tracking is off while a fetch holding a position is in flight,
\* the fetch completes and its sample is applied by the consumer: no step
\* drops a sample once obtained, and every sample obtained is eventually
\* among the applied ones.
C14_CancelKeepsInFlight ==
    /\ [][Obtained' >= Obtained]_vars
    /\ (/\ ~auto_update_enabled
        /\ \E t \in BagToSet(fetches) : HoldsSample(t)) ~> (Len(applied) = Obtained)

\* C15: samples are applied in the order their fetches were initiated. The
\* thread __init__ starts is the earliest of the session: while its sample
\* waits in the queue no sample has been applied, and no sample stands before
\* it in the queue.
C15_InitiationOrder ==
    \A i \in DOMAIN update_queue :
        (update_queue[i].type = "data" /\ update_queue[i].first) =>
            /\ applied = << >>
            /\ \A j \in 1..(i - 1) : update_queue[j].type # "data"

\* C16: a trigger dropped by single-flight has no effect. The step of a
\* thread that reads is_fetching as true sends no request, puts nothing on
\* the queue, leaves is_fetching, the location cache and its timestamp as
\* they are, and is the thread's last: the thread is gone after it.
C16_DroppedTrigger ==
    [][\A t \in BagToSet(fetches) :
          (t.pc = "check" /\ is_fetching /\ fetches' # fetches
             /\ CopiesIn(t, fetches') < CopiesIn(t, fetches)) =>
              /\ fetches' = Drop(fetches, t)
              /\ ~PositionRequest /\ ~GeoRequest
              /\ UNCHANGED <<update_queue, is_fetching, cached_location,
                             last_geo_update_time>>]_vars

\* a trigger arrives while another cycle holds the flag and has a request out
C16_Witness ==
    /\ is_fetching
    /\ \E t \in BagToSet(fetches) : t.pc = "check"
    /\ \E u \in BagToSet(fetches) : u.pc \in {"position", "geo"}

\* C17: across the samples the consumer accepts in a session, each becoming
\* last_position in turn, the timestamps never decrease.
C17_TimestampMonotone ==
    \A i, j \in DOMAIN applied :
        i < j => applied[i].timestamp_str <= applied[j].timestamp_str

\* C18: when the new sample's timestamp minus the previous accepted sample's
\* is <= 0, the velocity stored for the new sample is the velocity stored for
\* the previous one, along any chain of such samples; the last stored sample
\* is last_position.
C18_VelocityKept ==
    /\ \A i \in 2..Len(applied) :
          applied[i].timestamp_str - applied[i - 1].timestamp_str <= 0 =>
              applied[i].velocity = applied[i - 1].velocity
    /\ applied # << >> =>
          /\ last_position # NoData
          /\ last_position.velocity = applied[Len(applied)].velocity
          /\ last_position.timestamp = applied[Len(applied)].timestamp_str

\* the x-deltas 10, 10, 400, 10 on the 760-wide projection
ExampleTrail == <<<<0, 190>>, <<10, 190>>, <<20, 190>>, <<420, 190>>, <<430, 190>>>>

\* the trail's points i and i + 1 stand next to each other in a drawn line
Connected(trail, i) ==
    \E k \in DOMAIN trail_lines(trail) :
        \E n \in 1..(Len(trail_lines(trail)[k]) - 1) :
            /\ trail_lines(trail)[k][n] = i
            /\ trail_lines(trail)[k][n + 1] = i + 1

\* C19: two consecutive trail points are in the same polyline if and only if
\* the absolute difference of their x is at most half the projection width;
\* past that, the pair is not connected and the second point begins the
\* segment it is in. The deltas 10, 10, 400, 10 give two polylines, split at
\* the 400-delta pair.
C19_Segmentation ==
    /\ \A i \in 1..(Len(iss_trail_coords) - 1) :
          LET x1 == iss_trail_coords[i][1]
              x2 == iss_trail_coords[i + 1][1]
              delta == IF x2 >= x1 THEN x2 - x1 ELSE x1 - x2
          IN /\ Connected(iss_trail_coords, i) <=> 2 * delta <= canvas_width
             /\ 2 * delta > canvas_width =>
                   \A k \in DOMAIN trail_segments(iss_trail_coords) :
                       \A n \in DOMAIN trail_segments(iss_trail_coords)[k] :
                           trail_segments(iss_trail_coords)[k][n] = i + 1 => n = 1
    /\ trail_lines(ExampleTrail) = <<<<1, 2, 3>>, <<4, 5>>>>

\* a trail with a pair exactly half the width apart, drawn connected, and a
\* pair further apart, where a second line begins
C19_Witness ==
    /\ Len(trail_lines(iss_trail_coords)) = 2
    /\ \E i \in 1..(Len(iss_trail_coords) - 1) :
          /\ iss_trail_coords[i + 1][1] - iss_trail_coords[i][1] = 380
          /\ Connected(iss_trail_coords, i)
    /\ \E i \in 1..(Len(iss_trail_coords) - 1) :
          /\ iss_trail_coords[i + 1][1] - iss_trail_coords[i][1] = 399
          /\ ~Connected(iss_trail_coords, i)

\* C20: the trail never holds more than max_trail_points points, and a step
\* that changes it either empties it (a clear) or leaves the most recent
\* min(n, max_trail_points) points of the trail with the new point appended,
\* in append order: only the oldest point is ever evicted.
C20_TrailBound ==
    [][/\ Len(iss_trail_coords') <= max_trail_points
       /\ iss_trail_coords' # iss_trail_coords =>
             \/ iss_trail_coords' = << >>
             \/ LET pt == iss_trail_coords'[Len(iss_trail_coords')]
                    appended == Append(iss_trail_coords, pt)
                    n == Min(Len(appended), max_trail_points)
                IN iss_trail_coords' =
                      SubSeq(appended, Len(appended) - n + 1, Len(appended))]_vars

\* the trail is full and its first point was evicted: the oldest point left
\* is the second one appended, the newest the 1201st
C20_Witness ==
    /\ Len(iss_trail_coords) = max_trail_points
    /\ iss_trail_coords[1] = canvas_point(0, OrbitStep - 180)
    /\ iss_trail_coords[max_trail_points] = canvas_point(0, -180)

\* the points of the samples among the messages, in queue order
RECURSIVE QueuedPoints(_)
QueuedPoints(q) ==
    IF q = << >> THEN << >>
    ELSE IF Head(q).type = "data"
    THEN <<canvas_point(Head(q).data.latitude, Head(q).data.longitude)>>
             \o QueuedPoints(Tail(q))
    ELSE QueuedPoints(Tail(q))

\* C21: _clear_trail is safe at any time. A step that empties the trail
\* leaves is_fetching, the queue, the last accepted sample, the location
\* cache and its timestamp, the tracking flag and the fetch threads as they
\* are; and the samples that arrive afterwards are appended to the trail in
\* queue order (below max_trail_points), the first of them as the first point
\* of an empty trail.
C21_ClearIsSafe ==
    [][/\ (iss_trail_coords # << >> /\ iss_trail_coords' = << >>) =>
             UNCHANGED <<is_fetching, update_queue, last_position, cached_location,
                         last_geo_update_time, auto_update_enabled, fetches>>
       /\ (/\ update_queue' # update_queue /\ update_queue' = << >>
           /\ Len(iss_trail_coords \o QueuedPoints(update_queue)) <= max_trail_points) =>
             iss_trail_coords' = iss_trail_coords \o QueuedPoints(update_queue)]_vars

\* the trail was cleared after a sample was applied, and a cycle in flight
\* holds the next sample
C21_Witness ==
    /\ iss_trail_coords = << >>
    /\ applied # << >>
    /\ is_fetching
    /\ \E t \in BagToSet(fetches) : HoldsSample(t)

\* a thread in one of the given positions takes a step
ThreadStep(t, pcs) ==
    t.pc \in pcs /\ CopiesIn(t, fetches') < CopiesIn(t, fetches)

\* what is derived from the samples, and the threads that write the log
Derived ==
    <<last_position, iss_trail_coords, cached_location, last_geo_update_time,
      log_file, savers, applied>>

\* C22: a cycle that obtains no position leaves the last accepted sample, the
\* trail, the cached location and its timestamp and the persisted log as they
\* are: neither the thread's steps (the failed request, the except clause, the
\* finally clause and what follows it) nor the drain of a queue that holds no
\* sample changes them or starts a save.
C22_FailedCycleKeepsState ==
    [][/\ \A t \in BagToSet(fetches) :
             (\/ ThreadStep(t, {"position"}) /\ ~Entered("geo") /\ ~Entered("attach")
              \/ ThreadStep(t, {"except", "finally", "schedule"}))
                 => UNCHANGED Derived
       /\ (/\ update_queue # << >> /\ update_queue' = << >>
           /\ \A i \in DOMAIN update_queue : update_queue[i].type # "data")
                 => UNCHANGED Derived]_vars

\* a cycle has failed after a sample was accepted: its error waits in the queue
C22_Witness ==
    /\ last_position # NoData
    /\ cached_location # "Tracking"
    /\ \E i \in DOMAIN update_queue : update_queue[i].type = "error"

\* the step is one of a background thread: a thread moves on or ends, and
\* none is started
BackgroundStep == fetches' # fetches /\ spawned' = spawned

ScheduleMarker == [type |-> "schedule", data |-> NoData, first |-> FALSE]

Markers(q) == Cardinality({i \in DOMAIN q : q[i] = ScheduleMarker})

\* C26: scheduling stays on the consumer. The last step of a periodic thread
\* that finds tracking enabled puts a 'schedule' marker at the end of the
\* queue, behind whatever the thread put before; no other step of a thread,
\* and no step of a manual thread, adds a marker; and no step of a
\* background thread creates or cancels a timer or changes auto_update_job.
C26_ConsumerSchedules ==
    [][/\ \A t \in BagToSet(fetches) :
             ThreadStep(t, {"schedule"}) =>
                 /\ fetches' = Drop(fetches, t)
                 /\ update_queue' = IF ~t.is_manual /\ auto_update_enabled
                                    THEN Append(update_queue, ScheduleMarker)
                                    ELSE update_queue
       /\ \A t \in BagToSet(fetches) :
             (ThreadStep(t, {t.pc}) /\ (t.is_manual \/ t.pc # "schedule")) =>
                 Markers(update_queue') = Markers(update_queue)
       /\ BackgroundStep => UNCHANGED <<timers, auto_update_job, jobs_created>>
       /\ (timers' # timers \/ auto_update_job' # auto_update_job) =>
             (fetches' = fetches \/ spawned' # spawned)]_vars

\* a periodic cycle has put its sample and, tracking being on, its marker
\* behind it; the consumer has armed a timer for an earlier cycle
C26_Witness ==
    /\ auto_update_enabled
    /\ jobs_created >= 1
    /\ \E i \in DOMAIN update_queue :
          /\ i + 1 \in DOMAIN update_queue
          /\ update_queue[i].type = "data"
          /\ update_queue[i + 1] = ScheduleMarker

\* C27: disabling prevents new cycles. While tracking is disabled no periodic
\* fetch enters Fetching: a periodic thread passes the single-flight test
\* only in a state where tracking is enabled.
C27_DisabledStartsNoCycle ==
    [][\A t \in BagToSet(fetches) :
          (~t.is_manual /\ ThreadStep(t, {"check"}) /\ Entered("set_flag")) =>
              auto_update_enabled]_vars

\* tracking is on and nothing is left that starts a periodic cycle: no
\* periodic thread, no 'schedule' marker in the queue, no armed timer
Stalled ==
    /\ auto_update_enabled
    /\ \A t \in BagToSet(fetches) : t.is_manual
    /\ Markers(update_queue) = 0
    /\ timers = {}

\* from there no step that leaves tracking on starts a periodic cycle
StallIsPermanent == [][(Stalled /\ auto_update_enabled') => Stalled']_vars

\* C29: periodic tracking does not stall. While tracking is on, a periodic
\* trigger is followed by a further periodic cycle, also when the trigger was
\* dropped because a manual fetch was in flight: something that starts the
\* next cycle is always left, a periodic thread, a 'schedule' marker or an
\* armed timer.
C29_NoStall == ~Stalled

\* the periodic fetches in flight
PeriodicInFlight ==
    BagCardinality([t \in {x \in BagToSet(fetches) : ~x.is_manual /\ InFlight(x)}
                       |-> fetches[t]])

\* C30: at most one periodic chain. The armed timers, the 'schedule' markers
\* in the queue and the periodic fetches in flight are at most one together,
\* and an armed timer is the one auto_update_job refers to.
C30_OneChain ==
    /\ Cardinality(timers) + Markers(update_queue) + PeriodicInFlight <= 1
    /\ \A job \in timers : job = auto_update_job

\* C31: fetching always returns to Idle. A thread that has set is_fetching
\* leaves the try statement by the finally clause only, which clears the
\* flag, whether it got a sample, got none or an exception was raised; the
\* flag is set only while such a thread is in flight; and the threads in
\* flight all get there, so a flag that is set is cleared again.
C31_FlagReturns ==
    /\ [][\A t \in BagToSet(fetches) :
             (InFlight(t) /\ ThreadStep(t, {t.pc})
                /\ ~\E r \in BagToSet(fetches') :
                       InFlight(r) /\ CopiesIn(r, fetches') > CopiesIn(r, fetches)) =>
                 (t.pc = "finally" /\ ~is_fetching')]_vars
    /\ [](is_fetching => NumInFlight > 0)
    /\ (NumInFlight > 0) ~> (NumInFlight = 0)
    /\ is_fetching ~> ~is_fetching

\* a cycle ended in the except clause, and a cycle triggered after it has put
\* its sample: the flag is clear and no thread is in flight
C31_Witness ==
    /\ ~is_fetching
    /\ NumInFlight = 0
    /\ \E i, j \in DOMAIN update_queue :
          i < j /\ update_queue[i].type = "error" /\ update_queue[j].type = "data"

\* the points of the given lines, one line after the other
RECURSIVE Flatten(_)
Flatten(segs) == IF segs = << >> THEN << >> ELSE Head(segs) \o Flatten(Tail(segs))

\* the points of the trail, in order
TrailPoints(trail) == [i \in 1..Len(trail) |-> i]

\* the trail's point i has a discontinuity or an end of the trail on both sides
Lonely(trail, i) ==
    /\ i = 1 \/ segment_split(trail[i - 1][1], trail[i][1])
    /\ i = Len(trail) \/ segment_split(trail[i][1], trail[i + 1][1])

\* C32, as stated: the drawn polylines, one after the other, are the trail,
\* each point in exactly one of them.
C32_NoPointLost == Flatten(trail_lines(iss_trail_coords)) = TrailPoints(iss_trail_coords)

\* C32, amended: the segments the walk builds over a trail of two or more
\* points are, one after the other, the trail; the drawn polylines are the
\* segments of two or more points, so that, one after the other, they are the
\* trail without the points that have a discontinuity or an end of the trail
\* on both sides, each other point in exactly one polyline.
C32_DrawnPoints ==
    /\ Len(iss_trail_coords) > 1 =>
          Flatten(trail_segments(iss_trail_coords)) = TrailPoints(iss_trail_coords)
    /\ \A k \in DOMAIN trail_lines(iss_trail_coords) :
          Len(trail_lines(iss_trail_coords)[k]) > 1
    /\ Flatten(trail_lines(iss_trail_coords))
          = SelectSeq(TrailPoints(iss_trail_coords),
                      LAMBDA i : ~Lonely(iss_trail_coords, i))

\* two points between discontinuities, after a line and before a last point
\* that stands alone behind a discontinuity
C32_Witness ==
    /\ Len(iss_trail_coords) = 5
    /\ trail_lines(iss_trail_coords) = <<<<1, 2>>>>
    /\ Lonely(iss_trail_coords, 3)
    /\ Lonely(iss_trail_coords, 4)
    /\ Lonely(iss_trail_coords, 5)

\* tracking has been switched off while the periodic fetch it started holds a
\* position
C14_Witness ==
    /\ ~auto_update_enabled
    /\ \E t \in BagToSet(fetches) : ~t.is_manual /\ HoldsSample(t)

Count(seq, e) == Cardinality({i \in DOMAIN seq : seq[i] = e})

\* C6: once all save operations have finished, the persisted log contains
\* the entry of every sample the consumer applied, as often as it was applied
\* and nothing else.
C6_NoLostLogEntry ==
    savers = EmptyBag =>
        /\ Len(_load_log(log_file)) = Len(applied)
        /\ \A i \in DOMAIN applied :
              Count(_load_log(log_file), applied[i]) = Count(applied, applied[i])

(***************************************************************************)
(* Claims about the request staggerer.                                     *)
(***************************************************************************)
InRecord(o) ==
    \E c \in DOMAIN callers :
        /\ callers[c].self = o
        /\ callers[c].pc \in {"rs_enabled", "rs_multiplier", "rf_enabled", "rf_store",
                              "rf_min", "rf_multiplier"}

InCall(o) == \E c \in DOMAIN callers : callers[c].self = o

\* C7: whenever no call is in progress on a Staggerer, its backoff_multiplier
\* is min(2^consecutive_failures, 16), as after any sequential order of the
\* calls made so far.
C7_Serialized ==
    \A o \in DOMAIN objs :
        ~InCall(o) =>
            objs[o].backoff_multiplier = Min(2 ^ objs[o].consecutive_failures, 16)

\* the timestamps recorded on the object of issued[i] up to issued[i] that lie
\* in the 60 seconds ending at issued[i]
InWindow(i) ==
    {j \in 1..i : /\ issued[j].obj = issued[i].obj
                  /\ issued[i].t - issued[j].t < 600}

\* C8: of the timestamps a Staggerer has recorded, at most
\* max_requests_per_minute lie in any trailing 60-second window.
C8_RateCeiling ==
    \A i \in DOMAIN issued :
        Cardinality(InWindow(i)) <= objs[issued[i].obj].max_requests_per_minute

\* a call that slept for the rate limit has recorded its timestamp, and the
\* window ending there is full
C8_Witness ==
    \E i \in DOMAIN issued :
        /\ issued[i].limited
        /\ Cardinality(InWindow(i)) = objs[issued[i].obj].max_requests_per_minute

\* the timestamp recorded on the same object just before issued[i] (0: none)
PrevIssued(i) ==
    LET before == {j \in 1..(i - 1) : issued[j].obj = issued[i].obj} IN
    IF before = {} THEN 0 ELSE CHOOSE j \in before : \A k \in before : k <= j

\* C9: without jitter, the timestamps of two consecutive wait_if_needed calls
\* on a Staggerer differ by at least fixed_delay times the backoff_multiplier
\* the second call read.
C9_MinSpacing ==
    \A i \in DOMAIN issued :
        LET o == objs[issued[i].obj] IN
        (~o.enable_jitter /\ PrevIssued(i) # 0) =>
            issued[i].t - issued[PrevIssued(i)].t >= o.fixed_delay * issued[i].mult

\* a second call that came too early under a raised multiplier has been
\* delayed to exactly the required spacing
C9_Witness ==
    \E i \in DOMAIN issued :
        LET o == objs[issued[i].obj] IN
        /\ ~o.enable_jitter
        /\ PrevIssued(i) # 0
        /\ issued[i].mult >= 2
        /\ issued[i].t - issued[PrevIssued(i)].t = o.fixed_delay * issued[i].mult

\* C10 as stated: after k consecutive record_failure calls the multiplier is
\* min(2^k, 16) and the failure count k, for every Staggerer.
C10_EveryStaggerer ==
    \A o \in DOMAIN objs :
        ~InRecord(o) =>
            /\ objs[o].consecutive_failures = streak[o]
            /\ objs[o].backoff_multiplier = Min(2 ^ streak[o], 16)

\* C10, amended: the backoff law holds for a Staggerer constructed with
\* enable_exponential_backoff; without it the multiplier stays 1 and the
\* failure count 0. A record_success brings the streak, hence both, to the
\* baseline.
C10_BackoffLaw ==
    \A o \in DOMAIN objs :
        ~InRecord(o) =>
            IF objs[o].enable_exponential_backoff
            THEN /\ objs[o].consecutive_failures = streak[o]
                 /\ objs[o].backoff_multiplier = Min(2 ^ streak[o], 16)
            ELSE /\ objs[o].consecutive_failures = 0
                 /\ objs[o].backoff_multiplier = 1

\* five failures in a row have reached the cap
C10_Witness ==
    \E o \in DOMAIN objs :
        /\ ~InRecord(o)
        /\ objs[o].enable_exponential_backoff
        /\ streak[o] >= 5
        /\ objs[o].backoff_multiplier = 16

\* C23: wait_for_api on a name that was never registered raises ValueError
\* at once: the caller is not left waiting, and no Staggerer is created or
\* changed, whatever the other callers are in the middle of.
C23_UnregisteredRaises ==
    [][\A c \in DOMAIN callers, name \in ApiNames :
          (wait_for_api(c, name) /\ staggerers[name] = NoObj) =>
              /\ raised'[c] = "ValueError"
              /\ callers'[c].pc = "idle"
              /\ UNCHANGED <<objs, staggerers, global_lock, now>>]_vars

\* a caller got the ValueError while the other one was inside wait_if_needed
\* on a registered name
C23_Witness ==
    \E c, other \in DOMAIN callers :
        /\ raised[c] = "ValueError"
        /\ callers[c].pc = "idle"
        /\ callers[other].pc \in {"w_sleep1", "w_sleep2"}
        /\ \E name \in ApiNames : staggerers[name] = NoObj

\* C24: record_result on an unknown name never raises and does nothing: the
\* call returns, and the registered names and every Staggerer are as before.
C24_UnknownRecordIsNoOp ==
    [][\A c \in DOMAIN callers, name \in ApiNames, success \in BOOLEAN :
          (record_result(c, name, success) /\ staggerers[name] = NoObj) =>
              /\ raised'[c] = "none"
              /\ callers'[c].pc = "idle"
              /\ UNCHANGED <<objs, staggerers, global_lock, now, issued>>]_vars

\* two results were recorded, nothing else was called, and nothing is registered
C24_Witness ==
    /\ budget = MaxCalls - 2
    /\ waits = MaxCalls
    /\ objs = << >>
    /\ \A name \in ApiNames : staggerers[name] = NoObj
    /\ \A c \in DOMAIN callers : callers[c].pc = "idle" /\ raised[c] = "none"

\* the caller is inside "with self.lock" of the object
InsideLock(h, o) ==
    /\ callers[h].self = o
    /\ callers[h].pc \in {"w_delay", "w_sleep1", "w_rate", "w_sleep2", "w_update"}

\* the caller is inside record_success or record_failure
Recording(c) ==
    callers[c].pc \in {"rs_enabled", "rs_multiplier", "rf_enabled", "rf_store",
                       "rf_min", "rf_multiplier"}

\* C25: callers of different endpoints never contend. A caller about to
\* enter wait_if_needed goes on unless another caller is inside the lock of
\* the same Staggerer; a caller inside record_success or record_failure
\* always goes on; and a Staggerer changes only by a step of a caller that is
\* inside it.
C25_NoContention ==
    /\ [](\A c \in DOMAIN callers :
            /\ (/\ callers[c].pc = "w_lock"
                /\ \A h \in DOMAIN callers : ~InsideLock(h, callers[c].self))
                   => ENABLED wait_lock(c)
            /\ Recording(c) =>
                   ENABLED (\/ record_success_failures(c) \/ record_success_multiplier(c)
                            \/ record_failure_load(c) \/ record_failure_store(c)
                            \/ record_failure_min(c) \/ record_failure_multiplier(c)))
    /\ [][\A o \in DOMAIN objs :
             objs'[o] # objs[o] =>
                 \E c \in DOMAIN callers :
                     /\ callers'[c] # callers[c]
                     /\ o \in {callers[c].self, callers'[c].self}]_vars

\* each caller holds the lock of the Staggerer of its own endpoint
C25_Witness ==
    \E c, h \in DOMAIN callers, a, b \in ApiNames :
        /\ a # b
        /\ staggerers[a] # NoObj /\ InsideLock(c, staggerers[a])
        /\ staggerers[b] # NoObj /\ InsideLock(h, staggerers[b])

\* C28: register_api on a name already registered does not fail and leaves
\* under the name a fresh Staggerer with the new configuration
\* (consecutive_failures 0, backoff_multiplier 1, no timestamps); the
\* Staggerers of the other names, and every object constructed before, are as
\* they were.
C28_ReRegistrationReplaces ==
    [][\A c \in DOMAIN callers, name \in ApiNames, cfg \in Configs :
          (register_api(c, name, cfg) /\ staggerers[name] # NoObj) =>
              /\ staggerers'[name] \notin DOMAIN objs
              /\ objs'[staggerers'[name]] = RequestStaggerer(cfg)
              /\ objs'[staggerers'[name]].consecutive_failures = 0
              /\ objs'[staggerers'[name]].backoff_multiplier = 1
              /\ objs'[staggerers'[name]].request_times = << >>
              /\ \A other \in ApiNames \ {name} : staggerers'[other] = staggerers[other]
              /\ \A o \in DOMAIN objs : objs'[o] = objs[o]
              /\ raised' = raised]_vars

\* a name has been registered again with another configuration, after its
\* first Staggerer had recorded a failure, while the other name keeps its own
C28_Witness ==
    \E a, b \in ApiNames :
        /\ a # b
        /\ Len(objs) = 3
        /\ staggerers[a] = 3
        /\ staggerers[b] = 2
        /\ objs[1].consecutive_failures = 1
        /\ objs[3].consecutive_failures = 0
        /\ objs[3].fixed_delay = objs[1].fixed_delay
        /\ objs[3].enable_jitter # objs[1].enable_jitter

=============================================================================
